---- MODULE Spec2Model ----
(***************************************************************************)
(* BNetworkInterface / BNetworkInterfaceAddress                            *)
(* (src/kits/network/libnetapi/NetworkInterface.cpp): a facade that turns   *)
(* every public operation into socket() + ioctl() + close().               *)
(*                                                                         *)
(* The program state is the handle's name (fName), the kernel's interface   *)
(* table the ioctls act on, the number of descriptors the process holds,    *)
(* and the record of the last call (its arguments, result, out-parameters   *)
(* and the system calls it made).  The kernel is not part of the file; it   *)
(* is modelled from the specification's description of the ioctl commands.  *)
(***************************************************************************)
EXTENDS Integers, Sequences, FiniteSets, TLC

\* ------------------------------------------------------------------ bounds
\* Size of the name buffers (the platform's value is larger; scaled down).
IF_NAMESIZE == 3
\* Alias slots the kernel has, over all interfaces.
MaxAliases == 2
\* Bytes in one socket-address block of a request (scaled down).
SockCap == 3

\* --------------------------------------------------------------- constants
B_OK == 0

\* Symbolic error numbers (errno values are platform-defined and non-zero).
Errno ==
  [EMFILE |-> 24, ENODEV |-> 19, EIO |-> 5, EBADIDX |-> 33,
   EADDRNOTAVAIL |-> 49, ENOBUFS |-> 55]

\* IFF_LINK, the bit HasLink() tests.
IFF_LINK == 4

Min(a, b) == IF a < b THEN a ELSE b

\* Bit test: (v & bit) != 0 for a power of two `bit`.
BitAnd(v, bit) == IF (v \div bit) % 2 = 1 THEN bit ELSE 0

\* --------------------------------------------------------------- C strings
\* A C string is the sequence of its characters before the NUL.
\* strlcpy(dst, src, size): dst receives the first min(strlen(src), size-1)
\* characters of src and a terminating NUL.
Strlcpy(src, size) == SubSeq(src, 1, Min(Len(src), size - 1))

\* ------------------------------------------------------- socket addresses
\* A BNetworkAddress is the sequence of the Length() bytes of its sockaddr;
\* byte 1 is the length field, byte 2 the family.
Length(a) == a[1]

\* A default-constructed (unset) BNetworkAddress: length 2, family 0.
UnsetAddress == <<2, 0>>

\* A block of a request structure: SockCap bytes.  An uninitialised block
\* holds whatever the stack held (the byte g).
UninitBlock(g) == [i \in 1..SockCap |-> g]

\* memcpy(&dst, &src.SockAddr(), n): the first n bytes of dst are replaced.
Memcpy(dst, src, n) ==
  [i \in 1..SockCap |-> IF i <= n /\ i <= Len(src) THEN src[i] ELSE dst[i]]

\* The sockaddr a reader finds in a block: the bytes its length field covers.
SockAddrOf(block) ==
  LET n == IF block[1] < 0 THEN 0 ELSE Min(block[1], SockCap)
  IN  [i \in 1..n |-> block[i]]

\* BNetworkAddress::SetTo(const sockaddr&): takes the sockaddr in the block.
NetworkAddressSetTo(block) == SockAddrOf(block)

\* ----------------------------------------------------------- BNetworkInterfaceAddress
\* BNetworkInterfaceAddress(): index 0, flags 0, three unset addresses.
NewInterfaceAddress ==
  [fIndex |-> 0, fFlags |-> 0, fAddress |-> UnsetAddress,
   fMask |-> UnsetAddress, fBroadcast |-> UnsetAddress]

AddrSetAddress(rec, a) == [rec EXCEPT !.fAddress = a]
AddrSetMask(rec, m) == [rec EXCEPT !.fMask = m]
AddrSetBroadcast(rec, b) == [rec EXCEPT !.fBroadcast = b]
AddrSetFlags(rec, f) == [rec EXCEPT !.fFlags = f]

\* ------------------------------------------------------------------ kernel
\* The interfaces the kernel knows, by index.
IfIndices == {1, 2}

\* A name of n characters (alternating, so a prefix differs from a suffix).
LongName(n) == [i \in 1..n |-> IF i % 2 = 1 THEN 1 ELSE 2]

\* The name of interface i; interface 2 carries a name of maximal length.
IfName(i) == IF i = 1 THEN <<2>> ELSE LongName(IF_NAMESIZE - 1)

\* The index of the interface called name, 0 if there is none.
IfByName(name) ==
  IF \E i \in IfIndices : IfName(i) = name
  THEN CHOOSE i \in IfIndices : IfName(i) = name
  ELSE 0

IfType == <<6, 24>>
IfStats == << <<10, 20>>, <<30, 40>> >>
IfHwAddr(i) == <<3, 18, i>>

\* The aliases the kernel holds, over all interfaces.
AliasCount(k) == Len(k.aliases[1]) + Len(k.aliases[2])

\* The list without its p-th element.
RemoveAt(list, p) ==
  [j \in 1..(Len(list) - 1) |-> IF j < p THEN list[j] ELSE list[j + 1]]

\* The positions of the aliases whose address bytes equal addr.
MatchingAliases(aliases, addr) ==
  {j \in 1..Len(aliases) : aliases[j].addr = addr}

\* ioctl(socket, option, &request, sizeof(ifreq)) as the kernel serves it.
\* fault is an error the kernel raises on its own (0: none); pick is the
\* matching alias a removal takes.  Result: the error number (0: success),
\* the request as the kernel leaves it, the kernel's new state and the
\* position of the alias a removal took (0: none).
Ioctl(k, option, request, fault, pick) ==
  LET i == IfByName(request.ifr_name)
      fail(e) == [err |-> e, request |-> request, kernel |-> k, took |-> 0]
      reply(v) == [err |-> 0, request |-> [request EXCEPT !.u = v],
                   kernel |-> k, took |-> 0]
  IN
  IF fault # 0 THEN fail(fault)
  ELSE IF option = "SIOCGIFNAME" THEN
    IF request.u \in IfIndices
    THEN [err |-> 0,
          request |-> [request EXCEPT !.ifr_name = Strlcpy(IfName(request.u), IF_NAMESIZE)],
          kernel |-> k, took |-> 0]
    ELSE fail(Errno.ENODEV)
  ELSE IF i = 0 THEN fail(Errno.ENODEV)
  ELSE IF option = "SIOCGIFINDEX" THEN reply(i)
  ELSE IF option = "SIOCGIFFLAGS" THEN reply(k.flags[i])
  ELSE IF option = "SIOCGIFMTU" THEN reply(k.mtu[i])
  ELSE IF option = "SIOCGIFTYPE" THEN reply(IfType[i])
  ELSE IF option = "SIOCGIFSTATS" THEN reply(IfStats[i])
  ELSE IF option = "SIOCGIFADDR" THEN
    reply(Memcpy(request.u, IfHwAddr(i), Length(IfHwAddr(i))))
  ELSE IF option = "B_SOCKET_COUNT_ALIASES" THEN reply(Len(k.aliases[i]))
  ELSE IF option = "SIOCSIFFLAGS" THEN
    [err |-> 0, request |-> request,
     kernel |-> [k EXCEPT !.flags[i] = request.u], took |-> 0]
  ELSE IF option = "SIOCSIFMTU" THEN
    [err |-> 0, request |-> request,
     kernel |-> [k EXCEPT !.mtu[i] = request.u], took |-> 0]
  ELSE IF option = "B_SOCKET_REMOVE_ALIAS" THEN
    LET matching == MatchingAliases(k.aliases[i], SockAddrOf(request.u))
        p == IF pick \in matching THEN pick
             ELSE CHOOSE j \in matching : \A m \in matching : j <= m
    IN  IF matching = {} THEN fail(Errno.EADDRNOTAVAIL)
        ELSE [err |-> 0, request |-> request,
              kernel |-> [k EXCEPT !.aliases[i] = RemoveAt(@, p)],
              took |-> p]
  ELSE fail(Errno.EIO)

\* ioctl(socket, option, &request, sizeof(ifaliasreq)) for the alias commands.
IoctlAlias(k, option, request, fault) ==
  LET i == IfByName(request.ifra_name)
      fail(e) == [err |-> e, request |-> request, kernel |-> k]
      aliases == k.aliases[i]
      p == request.ifra_index + 1
      entry ==
        [addr |-> SockAddrOf(request.ifra_addr),
         mask |-> SockAddrOf(request.ifra_mask),
         bcast |-> SockAddrOf(request.ifra_broadaddr),
         flags |-> request.ifra_flags]
  IN
  IF fault # 0 THEN fail(fault)
  ELSE IF i = 0 THEN fail(Errno.ENODEV)
  ELSE IF option = "B_SOCKET_ADD_ALIAS" THEN
    IF AliasCount(k) >= MaxAliases THEN fail(Errno.ENOBUFS)
    ELSE [err |-> 0, request |-> request,
          kernel |-> [k EXCEPT !.aliases[i] = Append(@, entry)]]
  ELSE IF p < 1 \/ p > Len(aliases) THEN fail(Errno.EBADIDX)
  ELSE IF option = "B_SOCKET_GET_ALIAS" THEN
    [err |-> 0,
     request |->
       [request EXCEPT
          !.ifra_flags = aliases[p].flags,
          !.ifra_addr = Memcpy(@, aliases[p].addr, Length(aliases[p].addr)),
          !.ifra_mask = Memcpy(@, aliases[p].mask, Length(aliases[p].mask)),
          !.ifra_broadaddr = Memcpy(@, aliases[p].bcast, Length(aliases[p].bcast))],
     kernel |-> k]
  ELSE IF option = "B_SOCKET_SET_ALIAS" THEN
    [err |-> 0, request |-> request,
     kernel |-> [k EXCEPT !.aliases[i][p] = entry]]
  ELSE fail(Errno.EIO)

\* -------------------------------------------------------------- environment
\* What one round trip meets: socket() fails with sockErr (0: it returns a
\* descriptor), the kernel fails the ioctl on its own with fault (0: it
\* serves it), and pick is the matching alias a removal request takes.
Envs ==
  {[sockErr |-> Errno.EMFILE, fault |-> 0, pick |-> 0],
   [sockErr |-> 0, fault |-> Errno.EIO, pick |-> 0]}
  \cup [sockErr : {0}, fault : {0}, pick : 1..MaxAliases]

\* The environments that differ for a request that removes nothing.
PlainEnvs == {e \in Envs : e.pick <= 1}

\* What uninitialised stack memory may hold.
Garbage == {0, 1}

\* `ifreq request;` before anything is stored in it.
UninitIfreq(g) ==
  [ifr_name |-> IF g = 0 THEN <<>> ELSE [i \in 1..(IF_NAMESIZE - 1) |-> g],
   u |-> g]

\* The system calls of one round trip: the socket() calls with their family
\* and error, the ioctl() calls with what the kernel was handed, its error
\* and the position of the alias it took away (0: none), and the number of
\* close() calls.
NoCalls == [socks |-> <<>>, ioctls |-> <<>>, closes |-> 0]

Then(s, t) ==
  [socks |-> s.socks \o t.socks, ioctls |-> s.ioctls \o t.ioctls,
   closes |-> s.closes + t.closes]

\* The part of an ifreq's union the kernel reads for the option.
IfreqArg(option, request) ==
  IF option \in {"SIOCGIFNAME", "SIOCSIFFLAGS", "SIOCSIFMTU"} THEN request.u
  ELSE IF option = "B_SOCKET_REMOVE_ALIAS" THEN SockAddrOf(request.u)
  ELSE 0

\* do_request without the scoped closer: the descriptor is closed on the
\* success path only.
do_request_no_closer(k, request, name, option, env) ==
  IF env.sockErr # 0 THEN
    [status |-> env.sockErr, request |-> request, kernel |-> k,
     sys |-> [socks |-> <<[family |-> "AF_INET", err |-> env.sockErr]>>,
              ioctls |-> <<>>, closes |-> 0]]
  ELSE
    LET req == [request EXCEPT !.ifr_name = Strlcpy(name, IF_NAMESIZE)]
        r == Ioctl(k, option, req, env.fault, env.pick)
    IN  [status |-> IF r.err # 0 THEN r.err ELSE B_OK,
         request |-> r.request, kernel |-> r.kernel,
         sys |-> [socks |-> <<[family |-> "AF_INET", err |-> 0]>>,
                  ioctls |-> <<[option |-> option, name |-> req.ifr_name,
                                arg |-> IfreqArg(option, req), err |-> r.err,
                                took |-> r.took]>>,
                  closes |-> IF r.err # 0 THEN 0 ELSE 1]]

\* do_request that issues the ioctl a second time when it failed.
do_request_retry(k, request, name, option, env) ==
  IF env.sockErr # 0 THEN
    [status |-> env.sockErr, request |-> request, kernel |-> k,
     sys |-> [socks |-> <<[family |-> "AF_INET", err |-> env.sockErr]>>,
              ioctls |-> <<>>, closes |-> 0]]
  ELSE
    LET req == [request EXCEPT !.ifr_name = Strlcpy(name, IF_NAMESIZE)]
        r == Ioctl(k, option, req, env.fault, env.pick)
        entry == [option |-> option, name |-> req.ifr_name,
                  arg |-> IfreqArg(option, req), err |-> r.err,
                  took |-> r.took]
    IN  [status |-> IF r.err # 0 THEN r.err ELSE B_OK,
         request |-> r.request, kernel |-> r.kernel,
         sys |-> [socks |-> <<[family |-> "AF_INET", err |-> 0]>>,
                  ioctls |-> IF r.err # 0 THEN <<entry, entry>> ELSE <<entry>>,
                  closes |-> 1]]

\* do_request that returns ioctl's result (-1) instead of errno.
do_request_ioctl_result(k, request, name, option, env) ==
  IF env.sockErr # 0 THEN
    [status |-> env.sockErr, request |-> request, kernel |-> k,
     sys |-> [socks |-> <<[family |-> "AF_INET", err |-> env.sockErr]>>,
              ioctls |-> <<>>, closes |-> 0]]
  ELSE
    LET req == [request EXCEPT !.ifr_name = Strlcpy(name, IF_NAMESIZE)]
        r == Ioctl(k, option, req, env.fault, env.pick)
    IN  [status |-> IF r.err # 0 THEN 0 - 1 ELSE B_OK,
         request |-> r.request, kernel |-> r.kernel,
         sys |-> [socks |-> <<[family |-> "AF_INET", err |-> 0]>>,
                  ioctls |-> <<[option |-> option, name |-> req.ifr_name,
                                arg |-> IfreqArg(option, req), err |-> r.err,
                                took |-> r.took]>>,
                  closes |-> 1]]

\* do_request(ifreq& request, const char* name, int option)
do_request(k, request, name, option, env) ==
  IF env.sockErr # 0 THEN
    [status |-> env.sockErr, request |-> request, kernel |-> k,
     sys |-> [socks |-> <<[family |-> "AF_INET", err |-> env.sockErr]>>,
              ioctls |-> <<>>, closes |-> 0]]
  ELSE
    LET req == [request EXCEPT !.ifr_name = Strlcpy(name, IF_NAMESIZE)]
        r == Ioctl(k, option, req, env.fault, env.pick)
    IN  [status |-> IF r.err # 0 THEN r.err ELSE B_OK,
         request |-> r.request, kernel |-> r.kernel,
         sys |-> [socks |-> <<[family |-> "AF_INET", err |-> 0]>>,
                  ioctls |-> <<[option |-> option, name |-> req.ifr_name,
                                arg |-> IfreqArg(option, req), err |-> r.err,
                                took |-> r.took]>>,
                  closes |-> 1]]

\* do_ifaliasreq that reads the mask back from the broadcast block.
do_ifaliasreq_mask_from_broadcast(k, name, option, address, readBack, env, g) ==
  IF env.sockErr # 0 THEN
    [status |-> env.sockErr, address |-> address, kernel |-> k,
     sys |-> [socks |-> <<[family |-> "AF_INET", err |-> env.sockErr]>>,
              ioctls |-> <<>>, closes |-> 0]]
  ELSE
    LET request ==
          [ifra_name |-> Strlcpy(name, IF_NAMESIZE),
           ifra_index |-> address.fIndex,
           ifra_flags |-> address.fFlags,
           ifra_addr |-> Memcpy(UninitBlock(g), address.fAddress,
                                Length(address.fAddress)),
           ifra_mask |-> Memcpy(UninitBlock(g), address.fMask,
                                Length(address.fMask)),
           ifra_broadaddr |-> Memcpy(UninitBlock(g), address.fBroadcast,
                                     Length(address.fBroadcast))]
        r == IoctlAlias(k, option, request, env.fault)
        sys == [socks |-> <<[family |-> "AF_INET", err |-> 0]>>,
                ioctls |-> <<[option |-> option, name |-> request.ifra_name,
                              arg |-> [index |-> request.ifra_index,
                                       flags |-> request.ifra_flags,
                                       addr |-> SockAddrOf(request.ifra_addr),
                                       mask |-> SockAddrOf(request.ifra_mask),
                                       bcast |-> SockAddrOf(request.ifra_broadaddr)],
                              err |-> r.err, took |-> 0]>>,
                closes |-> 1]
    IN  IF r.err # 0 THEN
          [status |-> r.err, address |-> address, kernel |-> r.kernel, sys |-> sys]
        ELSE
          [status |-> B_OK,
           address |->
             IF readBack THEN
               [address EXCEPT
                  !.fFlags = r.request.ifra_flags,
                  !.fAddress = NetworkAddressSetTo(r.request.ifra_addr),
                  !.fMask = NetworkAddressSetTo(r.request.ifra_broadaddr),
                  !.fBroadcast = NetworkAddressSetTo(r.request.ifra_broadaddr)]
             ELSE address,
           kernel |-> r.kernel, sys |-> sys]

\* do_ifaliasreq(name, option, address, readBack)
do_ifaliasreq(k, name, option, address, readBack, env, g) ==
  IF env.sockErr # 0 THEN
    [status |-> env.sockErr, address |-> address, kernel |-> k,
     sys |-> [socks |-> <<[family |-> "AF_INET", err |-> env.sockErr]>>,
              ioctls |-> <<>>, closes |-> 0]]
  ELSE
    LET request ==
          [ifra_name |-> Strlcpy(name, IF_NAMESIZE),
           ifra_index |-> address.fIndex,
           ifra_flags |-> address.fFlags,
           ifra_addr |-> Memcpy(UninitBlock(g), address.fAddress,
                                Length(address.fAddress)),
           ifra_mask |-> Memcpy(UninitBlock(g), address.fMask,
                                Length(address.fMask)),
           ifra_broadaddr |-> Memcpy(UninitBlock(g), address.fBroadcast,
                                     Length(address.fBroadcast))]
        r == IoctlAlias(k, option, request, env.fault)
        sys == [socks |-> <<[family |-> "AF_INET", err |-> 0]>>,
                ioctls |-> <<[option |-> option, name |-> request.ifra_name,
                              arg |-> [index |-> request.ifra_index,
                                       flags |-> request.ifra_flags,
                                       addr |-> SockAddrOf(request.ifra_addr),
                                       mask |-> SockAddrOf(request.ifra_mask),
                                       bcast |-> SockAddrOf(request.ifra_broadaddr)],
                              err |-> r.err, took |-> 0]>>,
                closes |-> 1]
    IN  IF r.err # 0 THEN
          [status |-> r.err, address |-> address, kernel |-> r.kernel, sys |-> sys]
        ELSE
          [status |-> B_OK,
           address |->
             IF readBack THEN
               [address EXCEPT
                  !.fFlags = r.request.ifra_flags,
                  !.fAddress = NetworkAddressSetTo(r.request.ifra_addr),
                  !.fMask = NetworkAddressSetTo(r.request.ifra_mask),
                  !.fBroadcast = NetworkAddressSetTo(r.request.ifra_broadaddr)]
             ELSE address,
           kernel |-> r.kernel, sys |-> sys]

\* BNetworkInterfaceAddress::SetTo(interface, index)
InterfaceAddressSetTo(k, address, name, index, env, g) ==
  do_ifaliasreq(k, name, "B_SOCKET_GET_ALIAS",
                [address EXCEPT !.fIndex = index], TRUE, env, g)

\* ------------------------------------------------------ BNetworkInterface
\* Each operation yields its return value (ret), its out-parameter as the
\* caller finds it afterwards (out), the kernel's new state and the system
\* calls it made.

\* BNetworkInterface::Unset()
Unset == <<>>

\* SetTo(name) that copies the whole name (strcpy).
SetToName_unbounded(name) == name

\* BNetworkInterface::SetTo(const char* name)
SetToName(name) == Strlcpy(name, IF_NAMESIZE)

\* SetTo(index) that never stores the index in the request.
SetToIndex_index_not_stored(fn, k, index, env, g) ==
  LET request == UninitIfreq(g)
      r == do_request(k, request, <<>>, "SIOCGIFNAME", env)
  IN  IF r.status # B_OK
      THEN [ret |-> r.status, out |-> fn, kernel |-> r.kernel, sys |-> r.sys]
      ELSE [ret |-> B_OK, out |-> Strlcpy(r.request.ifr_name, IF_NAMESIZE),
            kernel |-> r.kernel, sys |-> r.sys]

\* SetTo(index) that copies the request's name before it looks at the status.
SetToIndex_copies_first(fn, k, index, env, g) ==
  LET request == [UninitIfreq(g) EXCEPT !.u = index]
      r == do_request(k, request, <<>>, "SIOCGIFNAME", env)
  IN  [ret |-> r.status, out |-> Strlcpy(r.request.ifr_name, IF_NAMESIZE),
       kernel |-> r.kernel, sys |-> r.sys]

\* BNetworkInterface::SetTo(uint32 index); out is the name the handle holds.
SetToIndex(fn, k, index, env, g) ==
  LET request == [UninitIfreq(g) EXCEPT !.u = index]
      r == do_request(k, request, <<>>, "SIOCGIFNAME", env)
  IN  IF r.status # B_OK
      THEN [ret |-> r.status, out |-> fn, kernel |-> r.kernel, sys |-> r.sys]
      ELSE [ret |-> B_OK, out |-> Strlcpy(r.request.ifr_name, IF_NAMESIZE),
            kernel |-> r.kernel, sys |-> r.sys]

\* BNetworkInterface::Exists()
Exists(fn, k, env, g) ==
  LET r == do_request(k, UninitIfreq(g), fn, "SIOCGIFINDEX", env)
  IN  [ret |-> (r.status = B_OK), out |-> 0, kernel |-> r.kernel, sys |-> r.sys]

\* Flags() that returns the request's field whatever the status.
Flags_status_ignored(fn, k, env, g) ==
  LET r == do_request(k, UninitIfreq(g), fn, "SIOCGIFFLAGS", env)
  IN  [ret |-> r.request.u, out |-> 0, kernel |-> r.kernel, sys |-> r.sys]

\* BNetworkInterface::Flags()
Flags(fn, k, env, g) ==
  LET r == do_request(k, UninitIfreq(g), fn, "SIOCGIFFLAGS", env)
  IN  [ret |-> IF r.status # B_OK THEN 0 ELSE r.request.u,
       out |-> 0, kernel |-> r.kernel, sys |-> r.sys]

\* BNetworkInterface::MTU()
MTU(fn, k, env, g) ==
  LET r == do_request(k, UninitIfreq(g), fn, "SIOCGIFMTU", env)
  IN  [ret |-> IF r.status # B_OK THEN 0 ELSE r.request.u,
       out |-> 0, kernel |-> r.kernel, sys |-> r.sys]

\* BNetworkInterface::Type()
Type(fn, k, env, g) ==
  LET r == do_request(k, UninitIfreq(g), fn, "SIOCGIFTYPE", env)
  IN  [ret |-> IF r.status # B_OK THEN 0 ELSE r.request.u,
       out |-> 0, kernel |-> r.kernel, sys |-> r.sys]

\* BNetworkInterface::GetStats(ifreq_stats& stats)
GetStats(fn, k, stats, env, g) ==
  LET r == do_request(k, UninitIfreq(g), fn, "SIOCGIFSTATS", env)
  IN  IF r.status # B_OK
      THEN [ret |-> r.status, out |-> stats, kernel |-> r.kernel, sys |-> r.sys]
      ELSE [ret |-> B_OK, out |-> r.request.u, kernel |-> r.kernel, sys |-> r.sys]

\* BNetworkInterface::HasLink()
HasLink(fn, k, env, g) ==
  LET r == Flags(fn, k, env, g)
  IN  [r EXCEPT !.ret = (BitAnd(r.ret, IFF_LINK) # 0)]

\* BNetworkInterface::SetFlags(uint32 flags)
SetFlags(fn, k, flags, env, g) ==
  LET r == do_request(k, [UninitIfreq(g) EXCEPT !.u = flags], fn,
                      "SIOCSIFFLAGS", env)
  IN  [ret |-> r.status, out |-> 0, kernel |-> r.kernel, sys |-> r.sys]

\* BNetworkInterface::SetMTU(uint32 mtu)
SetMTU(fn, k, mtu, env, g) ==
  LET r == do_request(k, [UninitIfreq(g) EXCEPT !.u = mtu], fn,
                      "SIOCSIFMTU", env)
  IN  [ret |-> r.status, out |-> 0, kernel |-> r.kernel, sys |-> r.sys]

\* BNetworkInterface::CountAddresses()
CountAddresses(fn, k, env, g) ==
  LET r == do_request(k, UninitIfreq(g), fn, "B_SOCKET_COUNT_ALIASES", env)
  IN  [ret |-> IF r.status # B_OK THEN 0 ELSE r.request.u,
       out |-> 0, kernel |-> r.kernel, sys |-> r.sys]

\* BNetworkInterface::GetAddressAt(int32 index, BNetworkInterfaceAddress& address)
GetAddressAt(fn, k, index, address, env, g) ==
  LET r == InterfaceAddressSetTo(k, address, fn, index, env, g)
  IN  [ret |-> r.status, out |-> r.address, kernel |-> r.kernel, sys |-> r.sys]

\* BNetworkInterface::AddAddress(const BNetworkInterfaceAddress& address)
AddAddress(fn, k, address, env, g) ==
  LET r == do_ifaliasreq(k, fn, "B_SOCKET_ADD_ALIAS", address, FALSE, env, g)
  IN  [ret |-> r.status, out |-> r.address, kernel |-> r.kernel, sys |-> r.sys]

\* BNetworkInterface::SetAddress(const BNetworkInterfaceAddress& address)
SetAddress(fn, k, address, env, g) ==
  LET r == do_ifaliasreq(k, fn, "B_SOCKET_SET_ALIAS", address, FALSE, env, g)
  IN  [ret |-> r.status, out |-> r.address, kernel |-> r.kernel, sys |-> r.sys]

\* BNetworkInterface::RemoveAddress(const BNetworkInterfaceAddress& address)
RemoveAddress(fn, k, address, env, g) ==
  LET request ==
        [UninitIfreq(g) EXCEPT
           !.u = Memcpy(UninitBlock(g), address.fAddress,
                        Length(address.fAddress))]
      r == do_request(k, request, fn, "B_SOCKET_REMOVE_ALIAS", env)
  IN  [ret |-> r.status, out |-> address, kernel |-> r.kernel, sys |-> r.sys]

\* RemoveAddressAt that goes on to the removal whatever the query returned.
RemoveAddressAt_status_ignored(fn, k, index, env1, env2, g) ==
  LET q == GetAddressAt(fn, k, index, NewInterfaceAddress, env1, g)
      r == RemoveAddress(fn, q.kernel, q.out, env2, g)
  IN  [ret |-> r.ret, out |-> q.out, kernel |-> r.kernel,
       sys |-> Then(q.sys, r.sys)]

\* BNetworkInterface::RemoveAddressAt(int32 index): env1 is what the query
\* meets, env2 what the removal meets.
RemoveAddressAt(fn, k, index, env1, env2, g) ==
  LET q == GetAddressAt(fn, k, index, NewInterfaceAddress, env1, g)
      r == RemoveAddress(fn, q.kernel, q.out, env2, g)
  IN  IF q.ret # B_OK
      THEN [ret |-> q.ret, out |-> q.out, kernel |-> q.kernel, sys |-> q.sys]
      ELSE [ret |-> r.ret, out |-> q.out, kernel |-> r.kernel,
            sys |-> Then(q.sys, r.sys)]

\* BNetworkInterface::GetHardwareAddress(BNetworkAddress& address)
GetHardwareAddress(fn, k, address, env, g) ==
  IF env.sockErr # 0 THEN
    [ret |-> env.sockErr, out |-> address, kernel |-> k,
     sys |-> [socks |-> <<[family |-> "AF_LINK", err |-> env.sockErr]>>,
              ioctls |-> <<>>, closes |-> 0]]
  ELSE
    LET request ==
          [ifr_name |-> Strlcpy(fn, IF_NAMESIZE), u |-> UninitBlock(g)]
        r == Ioctl(k, "SIOCGIFADDR", request, env.fault, env.pick)
        sys == [socks |-> <<[family |-> "AF_LINK", err |-> 0]>>,
                ioctls |-> <<[option |-> "SIOCGIFADDR",
                              name |-> request.ifr_name, arg |-> 0,
                              err |-> r.err, took |-> 0]>>,
                closes |-> 1]
    IN  IF r.err # 0
        THEN [ret |-> r.err, out |-> address, kernel |-> r.kernel, sys |-> sys]
        ELSE [ret |-> B_OK, out |-> NetworkAddressSetTo(r.request.u),
              kernel |-> r.kernel, sys |-> sys]

\* ------------------------------------------------------------------- state
VARIABLES
  fName,    \* the handle's name
  kernel,   \* the kernel's interface table: flags, mtu, aliases by index
  openFds,  \* descriptors the process holds
  call      \* the last call: op, arg, ret, out, sys

vars == <<fName, kernel, openFds, call>>

\* ------------------------------------------------------------------ inputs
\* Names a caller passes: empty, the interfaces' names, names of no interface
\* and names of IF_NAMESIZE and more characters.
Names == {<<>>, <<2>>} \cup {LongName(n) : n \in 1..(IF_NAMESIZE + 1)}
IndexInputs == IfIndices \cup {0}
FlagInputs == {0, 1, IFF_LINK + 1}
MtuInputs == {576, 1500}
StatsInputs == {<<0, 0>>}
HwInputs == {UnsetAddress}
AliasIndexInputs == 0..MaxAliases
AddrInputs == {<<3, 2, 5>>, <<3, 2, 6>>}
MaskInputs == {<<2, 2>>, <<3, 2, 7>>}
BcastInputs == {<<3, 2, 8>>}

\* The address records a caller passes: built with the plain setters (two
\* masks for the first address, one for the second).
AddressInputs ==
  {AddrSetFlags(AddrSetBroadcast(AddrSetMask(AddrSetAddress(
       [NewInterfaceAddress EXCEPT !.fIndex = i], a), m), b), 1) :
     i \in {0, 1}, a \in AddrInputs, m \in MaskInputs, b \in BcastInputs}
  \ {r \in [fIndex : {0, 1}, fFlags : {1}, fAddress : {<<3, 2, 6>>},
             fMask : {<<3, 2, 7>>}, fBroadcast : BcastInputs] : TRUE}

\* One of them.
OneAddress ==
  AddrSetFlags(AddrSetBroadcast(AddrSetMask(AddrSetAddress(
    NewInterfaceAddress, <<3, 2, 5>>), <<2, 2>>), <<3, 2, 8>>), 1)

\* The records a caller passes to a query: a fresh one or a used one.
QueryInputs ==
  {NewInterfaceAddress,
   AddrSetFlags(AddrSetBroadcast(AddrSetMask(AddrSetAddress(
     NewInterfaceAddress, <<3, 2, 9>>), <<3, 2, 9>>), <<3, 2, 9>>), 2)}

\* What the two round trips of RemoveAddressAt meet; the second is only
\* made when the first succeeds.
RemoveAtEnvs ==
  {<<e1, e2>> \in PlainEnvs \X Envs :
     (e1.sockErr # 0 \/ e1.fault # 0) => e2 = e1}

\* -------------------------------------------------------------------- Init
\* A default-constructed handle (BNetworkInterface() calls Unset()), no
\* descriptor open, the kernel's interfaces without aliases.
Init ==
  /\ fName = Unset
  /\ kernel = [flags |-> <<IFF_LINK + 1, 1>>, mtu |-> <<1500, 1500>>,
               aliases |-> << <<>>, <<>> >>]
  /\ openFds = 0
  /\ call = [op |-> "new", arg |-> 0, ret |-> 0, out |-> 0, sys |-> NoCalls]

\* socket() calls of the trace that returned a descriptor.
Opened(sys) == Cardinality({j \in 1..Len(sys.socks) : sys.socks[j].err = 0})

\* The operation returns: the caller sees r, the process keeps the
\* descriptors that were opened and not closed.
Return(op, arg, r) ==
  /\ call' = [op |-> op, arg |-> arg, ret |-> r.ret, out |-> r.out,
              sys |-> r.sys]
  /\ kernel' = r.kernel
  /\ openFds' = openFds + Opened(r.sys) - r.sys.closes

\* ----------------------------------------------------------------- actions
CallUnset ==
  /\ fName' = Unset
  /\ call' = [op |-> "Unset", arg |-> 0, ret |-> 0, out |-> 0, sys |-> NoCalls]
  /\ UNCHANGED <<kernel, openFds>>

CallSetToName(name) ==
  /\ fName' = SetToName(name)
  /\ call' = [op |-> "SetToName", arg |-> name, ret |-> 0, out |-> 0,
              sys |-> NoCalls]
  /\ UNCHANGED <<kernel, openFds>>

CallSetToIndex(index, env, g) ==
  LET r == SetToIndex(fName, kernel, index, env, g)
  IN  Return("SetToIndex", index, r) /\ fName' = r.out

CallExists(env, g) ==
  Return("Exists", 0, Exists(fName, kernel, env, g)) /\ UNCHANGED fName

CallFlags(env, g) ==
  Return("Flags", 0, Flags(fName, kernel, env, g)) /\ UNCHANGED fName

CallMTU(env, g) ==
  Return("MTU", 0, MTU(fName, kernel, env, g)) /\ UNCHANGED fName

CallType(env, g) ==
  Return("Type", 0, Type(fName, kernel, env, g)) /\ UNCHANGED fName

CallGetStats(stats, env, g) ==
  Return("GetStats", stats, GetStats(fName, kernel, stats, env, g))
  /\ UNCHANGED fName

CallHasLink(env, g) ==
  Return("HasLink", 0, HasLink(fName, kernel, env, g)) /\ UNCHANGED fName

CallSetFlags(flags, env, g) ==
  Return("SetFlags", flags, SetFlags(fName, kernel, flags, env, g))
  /\ UNCHANGED fName

CallSetMTU(mtu, env, g) ==
  Return("SetMTU", mtu, SetMTU(fName, kernel, mtu, env, g))
  /\ UNCHANGED fName

CallCountAddresses(env, g) ==
  Return("CountAddresses", 0, CountAddresses(fName, kernel, env, g))
  /\ UNCHANGED fName

CallGetAddressAt(index, address, env, g) ==
  Return("GetAddressAt", [index |-> index, address |-> address],
         GetAddressAt(fName, kernel, index, address, env, g))
  /\ UNCHANGED fName

CallAddAddress(address, env, g) ==
  Return("AddAddress", address, AddAddress(fName, kernel, address, env, g))
  /\ UNCHANGED fName

CallSetAddress(address, env, g) ==
  Return("SetAddress", address, SetAddress(fName, kernel, address, env, g))
  /\ UNCHANGED fName

CallRemoveAddress(address, env, g) ==
  Return("RemoveAddress", address,
         RemoveAddress(fName, kernel, address, env, g))
  /\ UNCHANGED fName

CallRemoveAddressAt(index, env1, env2, g) ==
  Return("RemoveAddressAt", index,
         RemoveAddressAt(fName, kernel, index, env1, env2, g))
  /\ UNCHANGED fName

CallGetHardwareAddress(address, env, g) ==
  Return("GetHardwareAddress", address,
         GetHardwareAddress(fName, kernel, address, env, g))
  /\ UNCHANGED fName

\* All operations, on few data values.
Next ==
  \/ CallUnset
  \/ \E name \in Names : CallSetToName(name)
  \/ \E index \in IndexInputs, env \in PlainEnvs, g \in Garbage :
       CallSetToIndex(index, env, g)
  \/ \E env \in PlainEnvs, g \in Garbage : CallExists(env, g)
  \/ \E env \in PlainEnvs, g \in Garbage : CallFlags(env, g)
  \/ \E env \in PlainEnvs, g \in Garbage : CallMTU(env, g)
  \/ \E env \in PlainEnvs, g \in Garbage : CallType(env, g)
  \/ \E stats \in StatsInputs, env \in PlainEnvs, g \in Garbage :
       CallGetStats(stats, env, g)
  \/ \E env \in PlainEnvs, g \in Garbage : CallHasLink(env, g)
  \/ \E env \in PlainEnvs, g \in Garbage :
       CallSetFlags(IFF_LINK + 1, env, g)
  \/ \E env \in PlainEnvs, g \in Garbage : CallSetMTU(1500, env, g)
  \/ \E env \in PlainEnvs, g \in Garbage : CallCountAddresses(env, g)
  \/ \E index \in AliasIndexInputs, address \in QueryInputs,
        env \in PlainEnvs, g \in Garbage :
       CallGetAddressAt(index, address, env, g)
  \/ \E env \in PlainEnvs, g \in Garbage : CallAddAddress(OneAddress, env, g)
  \/ \E env \in PlainEnvs, g \in Garbage : CallSetAddress(OneAddress, env, g)
  \/ \E env \in Envs, g \in Garbage : CallRemoveAddress(OneAddress, env, g)
  \/ \E index \in AliasIndexInputs, envs \in RemoveAtEnvs, g \in Garbage :
       CallRemoveAddressAt(index, envs[1], envs[2], g)
  \/ \E address \in HwInputs, env \in PlainEnvs, g \in Garbage :
       CallGetHardwareAddress(address, env, g)

Spec == Init /\ [][Next]_vars

\* The handle and the interface attributes, on more attribute values.
NextAttr ==
  \/ CallUnset
  \/ \E name \in Names : CallSetToName(name)
  \/ \E index \in IndexInputs, env \in PlainEnvs, g \in Garbage :
       CallSetToIndex(index, env, g)
  \/ \E env \in PlainEnvs, g \in Garbage : CallExists(env, g)
  \/ \E env \in PlainEnvs, g \in Garbage : CallFlags(env, g)
  \/ \E env \in PlainEnvs, g \in Garbage : CallMTU(env, g)
  \/ \E env \in PlainEnvs, g \in Garbage : CallType(env, g)
  \/ \E env \in PlainEnvs, g \in Garbage : CallHasLink(env, g)
  \/ \E flags \in FlagInputs, env \in PlainEnvs, g \in Garbage :
       CallSetFlags(flags, env, g)
  \/ \E mtu \in MtuInputs, env \in PlainEnvs, g \in Garbage :
       CallSetMTU(mtu, env, g)
  \/ \E env \in PlainEnvs, g \in Garbage : CallCountAddresses(env, g)
  \/ \E env \in PlainEnvs, g \in Garbage : CallAddAddress(OneAddress, env, g)

SpecAttr == Init /\ [][NextAttr]_vars

\* The alias operations on one interface, on more address records.
NextAlias ==
  \/ \E name \in {<<>>, IfName(1)} : CallSetToName(name)
  \/ \E env \in PlainEnvs, g \in Garbage : CallCountAddresses(env, g)
  \/ \E index \in AliasIndexInputs, address \in QueryInputs,
        env \in PlainEnvs, g \in Garbage :
       CallGetAddressAt(index, address, env, g)
  \/ \E address \in AddressInputs, env \in PlainEnvs, g \in Garbage :
       CallAddAddress(address, env, g)
  \/ \E address \in AddressInputs, env \in PlainEnvs, g \in Garbage :
       CallSetAddress(address, env, g)
  \/ \E address \in AddressInputs, env \in Envs, g \in Garbage :
       CallRemoveAddress(address, env, g)
  \/ \E index \in AliasIndexInputs, envs \in RemoveAtEnvs, g \in Garbage :
       CallRemoveAddressAt(index, envs[1], envs[2], g)

SpecAlias == Init /\ [][NextAlias]_vars

\* ------------------------------------------------------------------ claims
\* What a round trip meets when nothing fails.
OkEnv == [sockErr |-> 0, fault |-> 0, pick |-> 1]

\* The operations that make system calls.
KernelOps ==
  {"SetToIndex", "Exists", "Flags", "MTU", "Type", "GetStats", "HasLink",
   "SetFlags", "SetMTU", "CountAddresses", "GetAddressAt", "AddAddress",
   "SetAddress", "RemoveAddress", "RemoveAddressAt", "GetHardwareAddress"}

\* The error of the first system call of the trace that failed, 0 if none did.
FirstError(sys) ==
  IF \E j \in 1..Len(sys.socks) : sys.socks[j].err # 0
  THEN sys.socks[CHOOSE j \in 1..Len(sys.socks) : sys.socks[j].err # 0].err
  ELSE IF \E j \in 1..Len(sys.ioctls) : sys.ioctls[j].err # 0
  THEN sys.ioctls[CHOOSE j \in 1..Len(sys.ioctls) : sys.ioctls[j].err # 0].err
  ELSE 0

\* C1: every operation closes each descriptor it opened, whatever the
\* outcome of socket() and ioctl(), so no descriptor is ever left open.
C1_NoDescriptorLeft ==
  /\ openFds = 0
  /\ Opened(call.sys) = call.sys.closes

\* C1 witness: GetHardwareAddress returned after its ioctl failed on an open
\* socket.
C1_Witness ==
  /\ call.op = "GetHardwareAddress"
  /\ Opened(call.sys) = 1
  /\ Len(call.sys.ioctls) = 1
  /\ call.sys.ioctls[1].err # 0
  /\ openFds = 0

\* One socket() call and, when it returned a descriptor, exactly one ioctl().
SingleRoundTrip(sys) ==
  /\ Len(sys.socks) = 1
  /\ Len(sys.ioctls) = Opened(sys)

\* C2 as stated: every operation that talks to the kernel makes a single
\* round trip (one socket, one ioctl, no retry).
C2_Original ==
  call.op \in KernelOps => SingleRoundTrip(call.sys)

\* C2 amended: every operation but RemoveAddressAt makes a single round trip;
\* RemoveAddressAt makes one for the alias query and, only when the query
\* succeeded, a second one for the removal; no system call follows a failed
\* one.
C2_RoundTrips ==
  LET sys == call.sys IN
  /\ (call.op \in KernelOps /\ call.op # "RemoveAddressAt")
       => SingleRoundTrip(sys)
  /\ call.op = "RemoveAddressAt" =>
       /\ Len(sys.socks) \in {1, 2}
       /\ Len(sys.ioctls) = Opened(sys)
       /\ Len(sys.socks) = 2 <=>
            (sys.socks[1].err = 0 /\ sys.ioctls[1].err = 0)
       /\ Len(sys.ioctls) >= 1 => sys.ioctls[1].option = "B_SOCKET_GET_ALIAS"
       /\ Len(sys.ioctls) = 2 =>
            sys.ioctls[2].option = "B_SOCKET_REMOVE_ALIAS"
  /\ \A j \in 1..Len(sys.socks) : sys.socks[j].err # 0 => j = Len(sys.socks)
  /\ \A j \in 1..Len(sys.ioctls) : sys.ioctls[j].err # 0 => j = Len(sys.ioctls)

\* C2 witness: RemoveAddressAt made two round trips.
C2_Witness ==
  /\ call.op = "RemoveAddressAt"
  /\ Len(call.sys.socks) = 2
  /\ Len(call.sys.ioctls) = 2

StatusOps ==
  {"SetFlags", "SetMTU", "GetStats", "AddAddress", "SetAddress",
   "RemoveAddress", "GetAddressAt", "GetHardwareAddress", "SetToIndex"}

\* C3: a status-returning operation returns 0 exactly when socket() and
\* ioctl() both succeeded, and otherwise the error number of the system call
\* that failed.
C3_StatusVerbatim ==
  call.op \in StatusOps =>
    /\ call.ret = FirstError(call.sys)
    /\ call.ret = B_OK <=>
         (Opened(call.sys) = 1 /\ Len(call.sys.ioctls) = 1
          /\ call.sys.ioctls[1].err = 0)

\* C3 witness: SetMTU on a name of no interface returned the kernel's error.
C3_Witness ==
  /\ call.op = "SetMTU"
  /\ Len(call.sys.ioctls) = 1
  /\ call.sys.ioctls[1].err = Errno.ENODEV
  /\ call.ret = Errno.ENODEV

\* The single request of the last call failed.
RequestFailed == FirstError(call.sys) # 0

\* C4: a read accessor returns false / 0 whenever its request fails, as it
\* does for a name of no interface, and the kernel's value when it succeeds.
C4_ReadAccessors ==
  LET i == IfByName(fName) IN
  /\ (call.op \in {"Exists", "Flags", "MTU", "Type", "HasLink",
                   "CountAddresses"} /\ i = 0) => RequestFailed
  /\ call.op = "Exists" => call.ret = ~RequestFailed
  /\ call.op = "Flags" =>
       call.ret = IF RequestFailed THEN 0 ELSE kernel.flags[i]
  /\ call.op = "MTU" =>
       call.ret = IF RequestFailed THEN 0 ELSE kernel.mtu[i]
  /\ call.op = "Type" =>
       call.ret = IF RequestFailed THEN 0 ELSE IfType[i]
  /\ call.op = "CountAddresses" =>
       call.ret = IF RequestFailed THEN 0 ELSE Len(kernel.aliases[i])
  /\ call.op = "HasLink" =>
       call.ret = IF RequestFailed THEN FALSE
                  ELSE (kernel.flags[i] \div IFF_LINK) % 2 = 1

\* C4 witness: Flags() on a name of no interface, the socket was created and
\* the kernel refused the request.
C4_Witness ==
  /\ call.op = "Flags"
  /\ IfByName(fName) = 0
  /\ Opened(call.sys) = 1
  /\ call.sys.ioctls[1].err = Errno.ENODEV
  /\ call.ret = 0

\* C5: RemoveAddressAt(index) queries the alias at index; when the query
\* fails it returns the query's error, requests no removal and leaves the
\* kernel's aliases as they were; when the query succeeds it requests one
\* removal, of the address just read, and returns that request's result.
C5_RemoveAddressAtComposes ==
  [][call'.op = "RemoveAddressAt" =>
       LET sys == call'.sys
           index == call'.arg
           i == IfByName(fName)
           queryFailed ==
             sys.socks[1].err # 0 \/ sys.ioctls[1].err # 0
       IN
       /\ sys.socks[1].err = 0 =>
            /\ sys.ioctls[1].option = "B_SOCKET_GET_ALIAS"
            /\ sys.ioctls[1].name = fName
            /\ sys.ioctls[1].arg.index = index
       /\ queryFailed =>
            /\ call'.ret = FirstError(sys)
            /\ Len(sys.socks) = 1
            /\ \A j \in 1..Len(sys.ioctls) :
                 sys.ioctls[j].option # "B_SOCKET_REMOVE_ALIAS"
            /\ kernel' = kernel
       /\ ~queryFailed =>
            /\ Len(sys.socks) = 2
            /\ sys.socks[2].err # 0 =>
                 (Len(sys.ioctls) = 1 /\ call'.ret = sys.socks[2].err)
            /\ sys.socks[2].err = 0 =>
                 /\ Len(sys.ioctls) = 2
                 /\ sys.ioctls[2].option = "B_SOCKET_REMOVE_ALIAS"
                 /\ sys.ioctls[2].name = fName
                 /\ sys.ioctls[2].arg = kernel.aliases[i][index + 1].addr
                 /\ call'.ret = sys.ioctls[2].err
  ]_vars

\* C5 witness: RemoveAddressAt on an interface that has aliases returned the
\* error of its query for an index past the last alias.
C5_Witness ==
  /\ call.op = "RemoveAddressAt"
  /\ IfByName(fName) # 0
  /\ Len(kernel.aliases[IfByName(fName)]) > 0
  /\ Len(call.sys.ioctls) = 1
  /\ call.ret = Errno.EBADIDX

C7_AliasRoundTrip ==
  [][(call'.op = "AddAddress" /\ call'.ret = B_OK) =>
       LET record == call'.arg
           i == IfByName(fName)
           index == Len(kernel'.aliases[i]) - 1
       IN  \A queried \in QueryInputs, g \in Garbage :
             LET q == GetAddressAt(fName, kernel', index, queried, OkEnv, g)
             IN  /\ q.ret = B_OK
                 /\ q.out.fAddress = record.fAddress
                 /\ q.out.fMask = record.fMask
                 /\ q.out.fBroadcast = record.fBroadcast
  ]_vars

\* C7 witness: AddAddress succeeded with a record whose mask is shorter than
\* its broadcast address, as the second alias of the interface.
C7_Witness ==
  /\ call.op = "AddAddress"
  /\ call.ret = B_OK
  /\ Length(call.arg.fMask) < Length(call.arg.fBroadcast)
  /\ Len(kernel.aliases[IfByName(fName)]) = 2

\* C8: SetTo(index) hands the kernel that index with an empty name, and when
\* it succeeds the handle holds the name of the interface with that index,
\* for which an index lookup (SIOCGIFINDEX) yields the index again.
C8_IndexRoundTrip ==
  call.op = "SetToIndex" =>
    /\ Opened(call.sys) = 1 =>
         /\ call.sys.ioctls[1].option = "SIOCGIFNAME"
         /\ call.sys.ioctls[1].name = <<>>
         /\ call.sys.ioctls[1].arg = call.arg
    /\ call.ret = B_OK =>
         /\ call.arg \in IfIndices
         /\ fName = IfName(call.arg)
         /\ \A g \in Garbage :
              LET r == do_request(kernel, UninitIfreq(g), fName,
                                  "SIOCGIFINDEX", OkEnv)
              IN  r.status = B_OK /\ r.request.u = call.arg

\* C8 witness: SetTo(2) succeeded.
C8_Witness ==
  /\ call.op = "SetToIndex"
  /\ call.arg = 2
  /\ call.ret = B_OK
  /\ fName = IfName(2)

\* C9: the stored name is always shorter than IF_NAMESIZE; SetTo(name)
\* stores the first min(length, IF_NAMESIZE - 1) characters of name; every
\* operation on the handle sends the stored name to the kernel.
C9_NameTruncated ==
  /\ Len(fName) < IF_NAMESIZE
  /\ call.op = "SetToName" =>
       /\ Len(fName) = Min(Len(call.arg), IF_NAMESIZE - 1)
       /\ \A j \in 1..Len(fName) : fName[j] = call.arg[j]
  /\ (call.op \in KernelOps /\ call.op # "SetToIndex") =>
       \A j \in 1..Len(call.sys.ioctls) : call.sys.ioctls[j].name = fName

\* C9 witness: SetTo(name) was given a name of IF_NAMESIZE or more characters.
C9_Witness ==
  /\ call.op = "SetToName"
  /\ Len(call.arg) >= IF_NAMESIZE
  /\ Len(fName) = IF_NAMESIZE - 1

\* C10: a failed SetTo(index), GetStats, GetHardwareAddress or GetAddressAt
\* leaves the handle's name, the statistics record, the output address and
\* the record's fields (but its index) as they were; AddAddress, SetAddress
\* and RemoveAddress never modify the record passed to them.
C10_FailureLeavesData ==
  [][/\ (call'.op = "SetToIndex" /\ call'.ret # B_OK) => fName' = fName
     /\ (call'.op \in {"GetStats", "GetHardwareAddress"}
         /\ call'.ret # B_OK) => call'.out = call'.arg
     /\ (call'.op = "GetAddressAt" /\ call'.ret # B_OK) =>
          call'.out = [call'.arg.address EXCEPT !.fIndex = call'.arg.index]
     /\ call'.op \in {"AddAddress", "SetAddress", "RemoveAddress"} =>
          call'.out = call'.arg
  ]_vars

\* C10 witness: SetTo(index) failed on a handle that held a name.
C10_Witness ==
  /\ call.op = "SetToIndex"
  /\ call.ret # B_OK
  /\ fName # <<>>

====
